---- MODULE Spec2Model ----
(***************************************************************************)
(* CMakeModules/spv_to_header.py: the SPIR-V binary to C++ header          *)
(* converter.  One invocation of the script is a process that runs the     *)
(* entry point (lines 46-59) and then spv_to_header (lines 10-44) one      *)
(* statement at a time against a shared file system.  Files hold bytes     *)
(* (0..255); text written by the script is held as its ASCII codes.        *)
(***************************************************************************)
EXTENDS Integers, Sequences, FiniteSets, TLC

\* ------------------------------------------------------------------------
\* Bounds of the model
\* ------------------------------------------------------------------------

\* longest input file, in bytes (two full rows and a remainder)
MaxLen == 25

\* length of the input files of the two-invocation specification (a full
\* row and a remainder)
PairLen == 13

\* ------------------------------------------------------------------------
\* Characters and text
\* ------------------------------------------------------------------------

\* the printable ASCII characters, code 32 first (code 96, the grave accent,
\* is held by a placeholder: no text of the script has it)
Printable ==
  <<" ","!","\"","#","$","%","&","'","(",")","*","+",",","-",".","/",
    "0","1","2","3","4","5","6","7","8","9",":",";","<","=",">","?",
    "@","A","B","C","D","E","F","G","H","I","J","K","L","M","N","O",
    "P","Q","R","S","T","U","V","W","X","Y","Z","[","\\","]","^","_",
    "GRAVE","a","b","c","d","e","f","g","h","i","j","k","l","m","n","o",
    "p","q","r","s","t","u","v","w","x","y","z","{","|","}","~">>

\* the code of one character
Ord(c) ==
  IF c = "\n" THEN 10
  ELSE 31 + (CHOOSE j \in 1..Len(Printable) : Printable[j] = c)

\* a string, given as its characters, as the bytes a file holds
Enc(s) == [j \in 1..Len(s) |-> Ord(s[j])]

NL == Ord("\n")
SLASH == Ord("/")
COMMA == Ord(",")

\* the string literals of the script
T_Auto == Enc(<<"/","/"," ","A","u","t","o","-","g","e","n","e","r","a","t","e","d"," ","f","r","o","m"," ">>)
T_Newline == Enc(<<"\n">>)
T_DoNotEdit == Enc(<<"/","/"," ","D","O"," ","N","O","T"," ","E","D","I","T","!","\n","\n">>)
T_Ifndef == Enc(<<"#","i","f","n","d","e","f"," ">>)
T_Define == Enc(<<"#","d","e","f","i","n","e"," ">>)
T_Newline2 == Enc(<<"\n","\n">>)
T_Cstdint == Enc(<<"#","i","n","c","l","u","d","e"," ","<","c","s","t","d","i","n","t",">","\n">>)
T_Cstddef == Enc(<<"#","i","n","c","l","u","d","e"," ","<","c","s","t","d","d","e","f",">","\n","\n">>)
T_Namespace == Enc(<<"n","a","m","e","s","p","a","c","e"," ","S","h","a","d","e","r","s"," ","{","\n","\n">>)
T_SizeT == Enc(<<"c","o","n","s","t","e","x","p","r"," ","s","i","z","e","_","t"," ">>)
T_SizeEq == Enc(<<"_","s","i","z","e"," ","="," ">>)
T_Semi == Enc(<<";","\n","\n">>)
T_Uint8 == Enc(<<"c","o","n","s","t","e","x","p","r"," ","u","i","n","t","8","_","t"," ">>)
T_DataOpen == Enc(<<"_","d","a","t","a","[","]"," ","="," ","{","\n">>)
T_ArrayClose == Enc(<<"}",";","\n","\n">>)
T_NamespaceClose == Enc(<<"}"," ","/","/"," ","n","a","m","e","s","p","a","c","e"," ","S","h","a","d","e","r","s","\n","\n">>)
T_Endif == Enc(<<"#","e","n","d","i","f"," ","/","/"," ">>)
T_Shader == Enc(<<"S","H","A","D","E","R","_">>)
T_H == Enc(<<"_","H">>)
T_Indent == Enc(<<" "," "," "," ">>)
T_CommaSpace == Enc(<<","," ">>)
T_CommaNewline == Enc(<<",","\n">>)
T_0x == Enc(<<"0","x">>)
HexDigits == Enc(<<"0","1","2","3","4","5","6","7","8","9","a","b","c","d","e","f">>)
DecDigits == Enc(<<"0","1","2","3","4","5","6","7","8","9">>)

\* str.upper() on ASCII text
Upper(s) ==
  [j \in 1..Len(s) |->
     IF s[j] >= Ord("a") /\ s[j] <= Ord("z") THEN s[j] - (Ord("a") - Ord("A")) ELSE s[j]]

\* str(n) for n >= 0
RECURSIVE Decimal(_)
Decimal(n) ==
  IF n < 10 THEN <<DecDigits[n + 1]>>
  ELSE Decimal(n \div 10) \o <<DecDigits[(n % 10) + 1]>>

\* Hex2 with the two digits in the wrong order
Hex2Swapped(b) == T_0x \o <<HexDigits[(b % 16) + 1], HexDigits[(b \div 16) + 1]>>

\* the format 0x{b:02x}: two lowercase hexadecimal digits, zero padded
Hex2(b) == T_0x \o <<HexDigits[(b \div 16) + 1], HexDigits[(b % 16) + 1]>>

\* sep.join(parts)
RECURSIVE Join(_, _)
Join(parts, sep) ==
  IF Len(parts) = 0 THEN <<>>
  ELSE IF Len(parts) = 1 THEN parts[1]
  ELSE parts[1] \o sep \o Join(Tail(parts), sep)

\* os.path.basename(path): what follows the last "/"
Basename(path) ==
  LET cuts == {j \in 1..Len(path) : path[j] = SLASH}
      last == IF cuts = {} THEN 0 ELSE CHOOSE j \in cuts : \A m \in cuts : m <= j
  IN  SubSeq(path, last + 1, Len(path))

\* the row width of the array body
RowWidth == 12

\* spv_data[i:i+12]
Chunk(data, i) ==
  SubSeq(data, i + 1, IF i + RowWidth < Len(data) THEN i + RowWidth ELSE Len(data))

\* RowText without the comma that ends the row
RowTextNoComma(chunk) ==
  T_Indent \o Join([j \in 1..Len(chunk) |-> Hex2(chunk[j])], T_CommaSpace) \o T_Newline

\* the text of one row of the array body
RowText(chunk) ==
  T_Indent \o Join([j \in 1..Len(chunk) |-> Hex2(chunk[j])], T_CommaSpace) \o T_CommaNewline

\* GuardName without the upper-casing
GuardNameAsGiven(var_name) == T_Shader \o var_name \o T_H

\* guard_name
GuardName(var_name) == T_Shader \o Upper(var_name) \o T_H

\* ------------------------------------------------------------------------
\* The file system and the invocations
\* ------------------------------------------------------------------------

\* the invocations of the script
Procs == {1, 2}

\* what the file system holds at a path where no file is
NoFile == <<-1>>

\* what it holds at a path that is a directory, and at a file the user may
\* not read: both exist, and neither can be opened for reading
Directory == <<-2>>
Unreadable == <<-3>>

\* sys.argv[0]
Script == Enc(<<"s","p","v","_","t","o","_","h","e","a","d","e","r",".","p","y">>)

\* the paths of the file system: three inputs (two of one base name in
\* different directories), a path where no file is, and two destinations
P_ds == Enc(<<"d","/","s">>)
P_es == Enc(<<"e","/","s">>)
P_t == Enc(<<"t">>)
P_m == Enc(<<"m">>)
P_h == Enc(<<"h">>)
P_g == Enc(<<"g">>)
InputPaths == {P_ds, P_es, P_t}
DestPaths == {P_h, P_g}
Paths == InputPaths \cup DestPaths \cup {P_m}

\* the logical names: one name in three casings, and one with a digit
Name_ab == Enc(<<"a","b">>)
Name_Ab == Enc(<<"A","b">>)
Name_x9 == Enc(<<"x","_","Z","9">>)
Names == {Name_ab, Name_Ab, Name_x9}

\* input files: n bytes, the first byte b0 and each next one d further on
Bin(n, b0, d) == [j \in 1..n |-> (b0 + (j - 1) * d) % 256]
Patterns == {<<0, 1>>, <<250, 17>>}
InputBins(maxlen) == {Bin(n, pt[1], pt[2]) : n \in 0..maxlen, pt \in Patterns}

\* what a destination holds before the invocation
OldText == Enc(<<"/","/"," ","o","l","d","\n">>)
OldContents == {NoFile, OldText}

\* the command lines with three arguments
FullArgs(ins, outs, names) == {<<Script, a, b, c>> : a \in ins, b \in outs, c \in names}

\* the command lines with zero, one, two and four arguments
BadArgs ==
  {<<Script>>, <<Script, P_ds>>, <<Script, P_ds, P_h>>,
   <<Script, P_ds, P_h, Name_ab, Name_ab>>}

\* the lines of the script a process can be about to run; L14x and L21x are
\* the ends of the with blocks of lines 14 and 21, which close the file
Lines ==
  {"L47", "L55", "L14", "L15", "L14x", "L18", "L21", "L22", "L23", "L24", "L25",
   "L26", "L27", "L30", "L31", "L32", "L35", "L40", "L41", "L42", "L21x", "L44"}
Running(l) == l \in Lines

\* what print() and the interpreter write to a stream
Message(kind, path, n) == [kind |-> kind, path |-> path, n |-> n]

\* a closed output handle
NoHandle == [open |-> FALSE, pos |-> 0, buf |-> <<>>]

VARIABLES
  fs,          \* path -> the bytes of the file, or NoFile
  fs0,         \* fs as it was before any invocation started
  argv,        \* process -> sys.argv
  pc,          \* process -> the line it is about to run, "off", "exited", "killed"
  spv_data,    \* process -> the bytes read (line 15)
  guard_name,  \* process -> guard_name (line 18)
  i,           \* process -> the loop variable of line 35
  fin,         \* process -> whether the input handle of line 14 is open
  fout,        \* process -> the output handle of line 21 and its buffer
  exitcode,    \* process -> the exit status, -1 while there is none
  stdout,      \* process -> what was written to standard output
  stderr,      \* process -> what was written to standard error
  iolog        \* process -> the files it opened, read and closed, in order

vars ==
  <<fs, fs0, argv, pc, spv_data, guard_name, i, fin, fout, exitcode, stdout,
    stderr, iolog>>

\* HeaderFile with one fixed path for the output of every invocation
HeaderFileShared(p) == P_h

\* spv_file, header_file, var_name (lines 51-53)
SpvFile(p) == argv[p][2]
HeaderFile(p) == argv[p][3]
VarName(p) == argv[p][4]

\* os.path.exists(path)
Exists(path) == fs[path] # NoFile

\* the bytes of a file after data is written at offset pos
WriteAt(content, pos, data) ==
  LET old == IF content = NoFile THEN <<>> ELSE content
      end == pos + Len(data)
      n == IF Len(old) > end THEN Len(old) ELSE end
  IN  [j \in 1..n |->
         IF j > pos /\ j <= end THEN data[j - pos]
         ELSE IF j <= Len(old) THEN old[j]
         ELSE 0]

\* the state before any invocation has run a line
InitState(files, args) ==
  /\ fs = files
  /\ fs0 = files
  /\ argv = args
  /\ pc = [p \in Procs |-> IF args[p] = <<>> THEN "off" ELSE "L47"]
  /\ spv_data = [p \in Procs |-> <<>>]
  /\ guard_name = [p \in Procs |-> <<>>]
  /\ i = [p \in Procs |-> 0]
  /\ fin = [p \in Procs |-> FALSE]
  /\ fout = [p \in Procs |-> NoHandle]
  /\ exitcode = [p \in Procs |-> -1]
  /\ stdout = [p \in Procs |-> <<>>]
  /\ stderr = [p \in Procs |-> <<>>]
  /\ iolog = [p \in Procs |-> <<>>]

\* the files before the invocations: every input holds bin, every
\* destination holds old
Files(bin, old) ==
  [path \in Paths |->
     IF path \in InputPaths THEN bin
     ELSE IF path \in DestPaths THEN old
     ELSE NoFile]

\* one invocation, with any command line; the input paths hold a file of
\* any length, a directory or a file that may not be read
Init ==
  \E bin \in InputBins(MaxLen) \cup {Directory, Unreadable}, old \in OldContents :
    \E a \in FullArgs({P_ds, P_t, P_m}, {P_h}, Names) \cup BadArgs :
      InitState(Files(bin, old), [p \in Procs |-> IF p = 1 THEN a ELSE <<>>])

\* two invocations with three arguments each and different destinations,
\* the second with another input of the same base name or of another one,
\* or with the same input and another casing of the name
InitPair ==
  \E a \in FullArgs({P_ds}, {P_h}, {Name_ab}),
     b \in FullArgs({P_es, P_t}, {P_g}, {Name_ab}) \cup FullArgs({P_ds}, {P_g}, {Name_Ab}) :
    InitState(Files(Bin(PairLen, 250, 17), OldText), [p \in Procs |-> IF p = 1 THEN a ELSE b])

\* ------------------------------------------------------------------------
\* The text of the header
\* ------------------------------------------------------------------------

\* HeaderComment with the path as given
HeaderCommentPath(spv_file) == T_Auto \o spv_file \o T_Newline

\* line 22: the comment naming the input
HeaderComment(spv_file) == T_Auto \o Basename(spv_file) \o T_Newline

\* SizeDecl counting 32-bit words
SizeDeclWords(var_name, data) ==
  T_SizeT \o var_name \o T_SizeEq \o Decimal(Len(data) \div 4) \o T_Semi

\* line 31: the size constant
SizeDecl(var_name, data) == T_SizeT \o var_name \o T_SizeEq \o Decimal(Len(data)) \o T_Semi

\* line 32: the opening of the array
DataDecl(var_name) == T_Uint8 \o var_name \o T_DataOpen

\* the lines that write a text once
FixedWrites ==
  {"L22", "L23", "L24", "L25", "L26", "L27", "L30", "L31", "L32", "L40", "L41", "L42"}

\* the text f.write() is given at line l
LineText(l, spv_file, var_name, guard, data) ==
  CASE l = "L22" -> HeaderComment(spv_file)
    [] l = "L23" -> T_DoNotEdit
    [] l = "L24" -> T_Ifndef \o guard \o T_Newline
    [] l = "L25" -> T_Define \o guard \o T_Newline2
    [] l = "L26" -> T_Cstdint
    [] l = "L27" -> T_Cstddef
    [] l = "L30" -> T_Namespace
    [] l = "L31" -> SizeDecl(var_name, data)
    [] l = "L32" -> DataDecl(var_name)
    [] l = "L40" -> T_ArrayClose
    [] l = "L41" -> T_NamespaceClose
    [] l = "L42" -> T_Endif \o guard \o T_Newline

\* the line that runs after line l
NextLine(l) ==
  CASE l = "L22" -> "L23" [] l = "L23" -> "L24" [] l = "L24" -> "L25"
    [] l = "L25" -> "L26" [] l = "L26" -> "L27" [] l = "L27" -> "L30"
    [] l = "L30" -> "L31" [] l = "L31" -> "L32" [] l = "L32" -> "L35"
    [] l = "L40" -> "L41" [] l = "L41" -> "L42" [] l = "L42" -> "L21x"

\* ------------------------------------------------------------------------
\* The steps of one invocation
\* ------------------------------------------------------------------------

Logged(p, op, path) == iolog' = [iolog EXCEPT ![p] = Append(@, [op |-> op, path |-> path])]

\* sys.exit(code), or the end of the script
Exit(p, code) ==
  /\ pc' = [pc EXCEPT ![p] = "exited"]
  /\ exitcode' = [exitcode EXCEPT ![p] = code]

\* an exception nothing catches: the traceback goes to standard error and
\* the interpreter exits with status 1
Raise(p, exc) ==
  /\ stderr' = [stderr EXCEPT ![p] = Append(@, Message(exc, <<>>, 0))]
  /\ Exit(p, 1)

\* MainArgs refusing only too few arguments
MainArgsAtLeast(p) ==
  /\ pc[p] = "L47"
  /\ IF Len(argv[p]) < 4
       THEN /\ stdout' = [stdout EXCEPT ![p] = Append(@, Message("Usage", <<>>, 0))]
            /\ Exit(p, 1)
       ELSE /\ pc' = [pc EXCEPT ![p] = "L55"]
            /\ UNCHANGED <<stdout, exitcode>>
  /\ UNCHANGED <<fs, fs0, argv, spv_data, guard_name, i, fin, fout, stderr, iolog>>

\* lines 47-49: the argument count
MainArgs(p) ==
  /\ pc[p] = "L47"
  /\ IF Len(argv[p]) # 4
       THEN /\ stdout' = [stdout EXCEPT ![p] = Append(@, Message("Usage", <<>>, 0))]
            /\ Exit(p, 1)
       ELSE /\ pc' = [pc EXCEPT ![p] = "L55"]
            /\ UNCHANGED <<stdout, exitcode>>
  /\ UNCHANGED <<fs, fs0, argv, spv_data, guard_name, i, fin, fout, stderr, iolog>>

\* MainExists with sys.exit() in place of sys.exit(1)
MainExistsExit0(p) ==
  /\ pc[p] = "L55"
  /\ IF ~Exists(SpvFile(p))
       THEN /\ stdout' = [stdout EXCEPT ![p] = Append(@, Message("Error", SpvFile(p), 0))]
            /\ Exit(p, 0)
       ELSE /\ pc' = [pc EXCEPT ![p] = "L14"]
            /\ UNCHANGED <<stdout, exitcode>>
  /\ UNCHANGED <<fs, fs0, argv, spv_data, guard_name, i, fin, fout, stderr, iolog>>

\* lines 55-57: the input must exist
MainExists(p) ==
  /\ pc[p] = "L55"
  /\ IF ~Exists(SpvFile(p))
       THEN /\ stdout' = [stdout EXCEPT ![p] = Append(@, Message("Error", SpvFile(p), 0))]
            /\ Exit(p, 1)
       ELSE /\ pc' = [pc EXCEPT ![p] = "L14"]
            /\ UNCHANGED <<stdout, exitcode>>
  /\ UNCHANGED <<fs, fs0, argv, spv_data, guard_name, i, fin, fout, stderr, iolog>>

\* the exception open(path, 'rb') raises, "" if it raises none
OpenError(path) ==
  CASE fs[path] = NoFile -> "FileNotFoundError"
    [] fs[path] = Directory -> "IsADirectoryError"
    [] fs[path] = Unreadable -> "PermissionError"
    [] OTHER -> ""

\* OpenInput going on with no bytes when the input cannot be opened
OpenInputLenient(p) ==
  /\ pc[p] = "L14"
  /\ IF OpenError(SpvFile(p)) = ""
       THEN /\ fin' = [fin EXCEPT ![p] = TRUE]
            /\ Logged(p, "open_r", SpvFile(p))
            /\ pc' = [pc EXCEPT ![p] = "L15"]
       ELSE /\ pc' = [pc EXCEPT ![p] = "L18"]
            /\ UNCHANGED <<fin, iolog>>
  /\ UNCHANGED <<fs, fs0, argv, spv_data, guard_name, i, fout, exitcode, stdout, stderr>>

\* line 14: open(spv_file, 'rb')
OpenInput(p) ==
  /\ pc[p] = "L14"
  /\ IF OpenError(SpvFile(p)) = ""
       THEN /\ fin' = [fin EXCEPT ![p] = TRUE]
            /\ Logged(p, "open_r", SpvFile(p))
            /\ pc' = [pc EXCEPT ![p] = "L15"]
            /\ UNCHANGED <<exitcode, stderr>>
       ELSE /\ Raise(p, OpenError(SpvFile(p)))
            /\ UNCHANGED <<fin, iolog>>
  /\ UNCHANGED <<fs, fs0, argv, spv_data, guard_name, i, fout, stdout>>

\* line 15: spv_data = f.read()
ReadInput(p) ==
  /\ pc[p] = "L15"
  /\ spv_data' = [spv_data EXCEPT ![p] = fs[SpvFile(p)]]
  /\ Logged(p, "read", SpvFile(p))
  /\ pc' = [pc EXCEPT ![p] = "L14x"]
  /\ UNCHANGED <<fs, fs0, argv, guard_name, i, fin, fout, exitcode, stdout, stderr>>

\* CloseInput without the with block: the handle stays open
CloseInputLeak(p) ==
  /\ pc[p] = "L14x"
  /\ pc' = [pc EXCEPT ![p] = "L18"]
  /\ UNCHANGED <<fs, fs0, argv, spv_data, guard_name, i, fin, fout, exitcode, stdout,
                 stderr, iolog>>

\* the end of the with block of line 14: the input is closed
CloseInput(p) ==
  /\ pc[p] = "L14x"
  /\ fin' = [fin EXCEPT ![p] = FALSE]
  /\ Logged(p, "close", SpvFile(p))
  /\ pc' = [pc EXCEPT ![p] = "L18"]
  /\ UNCHANGED <<fs, fs0, argv, spv_data, guard_name, i, fout, exitcode, stdout, stderr>>

\* line 18: guard_name
DeriveGuard(p) ==
  /\ pc[p] = "L18"
  /\ guard_name' = [guard_name EXCEPT ![p] = GuardName(VarName(p))]
  /\ pc' = [pc EXCEPT ![p] = "L21"]
  /\ UNCHANGED <<fs, fs0, argv, spv_data, i, fin, fout, exitcode, stdout, stderr, iolog>>

\* OpenOutput keeping the bytes of a file that exists (mode 'r+' for 'w')
OpenOutputKeep(p) ==
  /\ pc[p] = "L21"
  /\ \E ok \in BOOLEAN :
       IF ok /\ fs[HeaderFile(p)] # Directory
         THEN /\ fs' = [fs EXCEPT ![HeaderFile(p)] = IF @ = NoFile THEN <<>> ELSE @]
              /\ fout' = [fout EXCEPT ![p] = [open |-> TRUE, pos |-> 0, buf |-> <<>>]]
              /\ Logged(p, "open_w", HeaderFile(p))
              /\ pc' = [pc EXCEPT ![p] = "L22"]
              /\ UNCHANGED <<exitcode, stderr>>
         ELSE /\ Raise(p, "OSError")
              /\ UNCHANGED <<fs, fout, iolog>>
  /\ UNCHANGED <<fs0, argv, spv_data, guard_name, i, fin, stdout>>

\* OpenOutput with spv_data a view of the input file and not a copy of its
\* bytes: what the file loses the data lose
OpenOutputLazy(p) ==
  /\ pc[p] = "L21"
  /\ \E ok \in BOOLEAN :
       IF ok /\ fs[HeaderFile(p)] # Directory
         THEN /\ fs' = [fs EXCEPT ![HeaderFile(p)] = <<>>]
              /\ spv_data' = [spv_data EXCEPT ![p] =
                                IF SpvFile(p) = HeaderFile(p) THEN <<>> ELSE @]
              /\ fout' = [fout EXCEPT ![p] = [open |-> TRUE, pos |-> 0, buf |-> <<>>]]
              /\ Logged(p, "open_w", HeaderFile(p))
              /\ pc' = [pc EXCEPT ![p] = "L22"]
              /\ UNCHANGED <<exitcode, stderr>>
         ELSE /\ Raise(p, "OSError")
              /\ UNCHANGED <<fs, fout, iolog, spv_data>>
  /\ UNCHANGED <<fs0, argv, guard_name, i, fin, stdout>>

\* line 21: open(header_file, 'w') creates the file or truncates it, unless
\* the path cannot be opened for writing
OpenOutput(p) ==
  /\ pc[p] = "L21"
  /\ \E ok \in BOOLEAN :
       IF ok /\ fs[HeaderFile(p)] # Directory
         THEN /\ fs' = [fs EXCEPT ![HeaderFile(p)] = <<>>]
              /\ fout' = [fout EXCEPT ![p] = [open |-> TRUE, pos |-> 0, buf |-> <<>>]]
              /\ Logged(p, "open_w", HeaderFile(p))
              /\ pc' = [pc EXCEPT ![p] = "L22"]
              /\ UNCHANGED <<exitcode, stderr>>
         ELSE /\ Raise(p, "OSError")
              /\ UNCHANGED <<fs, fout, iolog>>
  /\ UNCHANGED <<fs0, argv, spv_data, guard_name, i, fin, stdout>>

\* what one f.write(text) can do: keep the text in the buffer of the handle,
\* write the buffer and the text to the file, or fail to write them (the
\* exception leaves the with block, which closes the handle)
WriteOutcomes == {"buffered", "flushed", "failed"}

\* f.write(text) with outcome o
FWrite(p, text, o) ==
  CASE o = "buffered" ->
         /\ fout' = [fout EXCEPT ![p].buf = @ \o text]
         /\ UNCHANGED fs
    [] o = "flushed" ->
         LET data == fout[p].buf \o text
         IN  /\ fs' = [fs EXCEPT ![HeaderFile(p)] = WriteAt(@, fout[p].pos, data)]
             /\ fout' = [fout EXCEPT ![p].pos = @ + Len(data), ![p].buf = <<>>]
    [] o = "failed" ->
         /\ fout' = [fout EXCEPT ![p] = NoHandle]
         /\ UNCHANGED fs

\* lines 22-32 and 40-42: one f.write of a fixed text
WriteLine(p) ==
  /\ pc[p] \in FixedWrites
  /\ \E o \in WriteOutcomes :
       /\ FWrite(p, LineText(pc[p], SpvFile(p), VarName(p), guard_name[p], spv_data[p]), o)
       /\ IF o = "failed"
            THEN Raise(p, "OSError")
            ELSE /\ pc' = [pc EXCEPT ![p] = NextLine(pc[p])]
                 /\ UNCHANGED <<exitcode, stderr>>
  /\ i' = [i EXCEPT ![p] = IF pc[p] = "L32" THEN 0 ELSE @]
  /\ UNCHANGED <<fs0, argv, spv_data, guard_name, fin, stdout, iolog>>

\* WriteRow with the test at the end of the loop: one row at least
WriteRowDoWhile(p) ==
  /\ pc[p] = "L35"
  /\ IF i[p] < Len(spv_data[p]) \/ i[p] = 0
       THEN /\ \E o \in WriteOutcomes :
                 /\ FWrite(p, RowText(Chunk(spv_data[p], i[p])), o)
                 /\ IF o = "failed"
                      THEN Raise(p, "OSError")
                      ELSE UNCHANGED <<pc, exitcode, stderr>>
            /\ i' = [i EXCEPT ![p] = @ + RowWidth]
       ELSE /\ pc' = [pc EXCEPT ![p] = "L40"]
            /\ UNCHANGED <<fs, fout, i, exitcode, stderr>>
  /\ UNCHANGED <<fs0, argv, spv_data, guard_name, fin, stdout, iolog>>

\* lines 35-38: one turn of the loop; i is the next value of range(0, len, 12)
WriteRow(p) ==
  /\ pc[p] = "L35"
  /\ IF i[p] < Len(spv_data[p])
       THEN /\ \E o \in WriteOutcomes :
                 /\ FWrite(p, RowText(Chunk(spv_data[p], i[p])), o)
                 /\ IF o = "failed"
                      THEN Raise(p, "OSError")
                      ELSE UNCHANGED <<pc, exitcode, stderr>>
            /\ i' = [i EXCEPT ![p] = @ + RowWidth]
       ELSE /\ pc' = [pc EXCEPT ![p] = "L40"]
            /\ UNCHANGED <<fs, fout, i, exitcode, stderr>>
  /\ UNCHANGED <<fs0, argv, spv_data, guard_name, fin, stdout, iolog>>

\* the end of the with block of line 21: the buffer is written and the
\* handle closed, or the write fails
CloseOutput(p) ==
  /\ pc[p] = "L21x"
  /\ \E ok \in BOOLEAN :
       IF ok
         THEN /\ fs' = [fs EXCEPT ![HeaderFile(p)] = WriteAt(@, fout[p].pos, fout[p].buf)]
              /\ Logged(p, "close", HeaderFile(p))
              /\ pc' = [pc EXCEPT ![p] = "L44"]
              /\ UNCHANGED <<exitcode, stderr>>
         ELSE /\ fout[p].buf # <<>>
              /\ Raise(p, "OSError")
              /\ UNCHANGED <<fs, iolog>>
  /\ fout' = [fout EXCEPT ![p] = NoHandle]
  /\ UNCHANGED <<fs0, argv, spv_data, guard_name, i, fin, stdout>>

\* line 44: the confirmation, and the end of the script
PrintGenerated(p) ==
  /\ pc[p] = "L44"
  /\ stdout' = [stdout EXCEPT ![p] =
                  Append(@, Message("Generated", HeaderFile(p), Len(spv_data[p])))]
  /\ Exit(p, 0)
  /\ UNCHANGED <<fs, fs0, argv, spv_data, guard_name, i, fin, fout, stderr, iolog>>

\* the process is killed: what its handles buffered is lost
Kill(p) ==
  /\ Running(pc[p])
  /\ pc' = [pc EXCEPT ![p] = "killed"]
  /\ exitcode' = [exitcode EXCEPT ![p] = 137]
  /\ fin' = [fin EXCEPT ![p] = FALSE]
  /\ fout' = [fout EXCEPT ![p] = NoHandle]
  /\ UNCHANGED <<fs, fs0, argv, spv_data, guard_name, i, stdout, stderr, iolog>>

\* another program removes the input of an invocation between its
\* existence check (line 55) and its open (line 14); a file some invocation
\* has open is left alone, as an open handle keeps its bytes
RemoveInput(path) ==
  /\ Exists(path)
  /\ \E p \in Procs : pc[p] = "L14" /\ SpvFile(p) = path
  /\ \A q \in Procs : ~(fin[q] /\ SpvFile(q) = path)
  /\ fs' = [fs EXCEPT ![path] = NoFile]
  /\ UNCHANGED <<fs0, argv, pc, spv_data, guard_name, i, fin, fout, exitcode, stdout,
                 stderr, iolog>>

Invocation(p) ==
    \/ MainArgs(p)
    \/ MainExists(p)
    \/ OpenInput(p)
    \/ ReadInput(p)
    \/ CloseInput(p)
    \/ DeriveGuard(p)
    \/ OpenOutput(p)
    \/ WriteLine(p)
    \/ WriteRow(p)
    \/ CloseOutput(p)
    \/ PrintGenerated(p)
    \/ Kill(p)

Next ==
  \/ \E p \in Procs : Invocation(p)
  \/ \E path \in Paths : RemoveInput(path)

Spec == Init /\ [][Next]_vars

SpecPair == InitPair /\ [][Next]_vars

\* ------------------------------------------------------------------------
\* Reading a header back
\* ------------------------------------------------------------------------

\* the whole text of the header for an input
RECURSIVE RowsText(_, _)
RowsText(data, from) ==
  IF from < Len(data) THEN RowText(Chunk(data, from)) \o RowsText(data, from + RowWidth)
  ELSE <<>>
Render(spv_file, var_name, data) ==
  LET t(l) == LineText(l, spv_file, var_name, GuardName(var_name), data)
  IN  t("L22") \o t("L23") \o t("L24") \o t("L25") \o t("L26") \o t("L27") \o t("L30")
        \o t("L31") \o t("L32") \o RowsText(data, 0) \o t("L40") \o t("L41") \o t("L42")

\* the lines of a text, without the newlines that end them
RECURSIVE SplitLines(_)
SplitLines(s) ==
  IF \A j \in 1..Len(s) : s[j] # NL THEN <<s>>
  ELSE LET k == CHOOSE j \in 1..Len(s) : s[j] = NL /\ \A m \in 1..(j - 1) : s[m] # NL
       IN  <<SubSeq(s, 1, k - 1)>> \o SplitLines(SubSeq(s, k + 1, Len(s)))

StartsWith(s, prefix) == Len(s) >= Len(prefix) /\ SubSeq(s, 1, Len(prefix)) = prefix
EndsWith(s, suffix) ==
  Len(s) >= Len(suffix) /\ SubSeq(s, Len(s) - Len(suffix) + 1, Len(s)) = suffix

\* the elements of a set of numbers in increasing order
RECURSIVE Ascending(_)
Ascending(S) ==
  IF S = {} THEN <<>>
  ELSE LET m == CHOOSE x \in S : \A y \in S : x <= y
       IN  <<m>> \o Ascending(S \ {m})

IsHexDigit(c) == \E v \in 1..16 : HexDigits[v] = c
HexValue(c) == (CHOOSE v \in 1..16 : HexDigits[v] = c) - 1
IsDecDigit(c) == \E v \in 1..10 : DecDigits[v] = c
DecValue(c) == (CHOOSE v \in 1..10 : DecDigits[v] = c) - 1

\* where the hex literals of a line start: at 0x followed by a hex digit
LitStarts(line) ==
  {j \in 1..(Len(line) - 2) :
     line[j] = T_0x[1] /\ line[j + 1] = T_0x[2] /\ IsHexDigit(line[j + 2])}

\* the index of the last digit of the literal that starts at j
RECURSIVE LitEnd(_, _)
LitEnd(line, j) ==
  IF j + 1 <= Len(line) /\ IsHexDigit(line[j + 1]) THEN LitEnd(line, j + 1) ELSE j

\* the value of the hex digits line[a..b]
RECURSIVE HexNumber(_, _, _)
HexNumber(line, a, b) ==
  IF a > b THEN 0 ELSE 16 * HexNumber(line, a, b - 1) + HexValue(line[b])

\* the values of the literals of a line, left to right
RowBytes(line) ==
  LET starts == Ascending(LitStarts(line))
  IN  [r \in 1..Len(starts) |-> HexNumber(line, starts[r] + 2, LitEnd(line, starts[r] + 1))]

\* the rows of the array <name>_data of a header: the lines between the
\* line that opens the array and the next line that closes it
ArrayClose == Enc(<<"}",";">>)
ArrayOpen(name) == name \o Enc(<<"_","d","a","t","a","[","]"," ","="," ","{">>)
ArrayBody(text, name) ==
  LET L == SplitLines(text)
      opens == {j \in 1..Len(L) : EndsWith(L[j], ArrayOpen(name))}
      a == CHOOSE j \in opens : \A m \in opens : j <= m
      closes == {j \in (a + 1)..Len(L) : L[j] = ArrayClose}
      c == CHOOSE j \in closes : \A m \in closes : j <= m
  IN  IF opens = {} THEN <<>>
      ELSE IF closes = {} THEN SubSeq(L, a + 1, Len(L))
      ELSE SubSeq(L, a + 1, c - 1)

\* the bytes the array of a header holds, in row order
RECURSIVE Flatten(_)
Flatten(rows) == IF rows = <<>> THEN <<>> ELSE RowBytes(Head(rows)) \o Flatten(Tail(rows))
Decode(text, name) == Flatten(ArrayBody(text, name))

\* the value of a decimal literal, -1 if it is none
RECURSIVE DecNumber(_)
DecNumber(ds) ==
  IF ds = <<>> THEN 0 ELSE 10 * DecNumber(SubSeq(ds, 1, Len(ds) - 1)) + DecValue(ds[Len(ds)])
ParseDecimal(ds) ==
  IF ds # <<>> /\ \A j \in 1..Len(ds) : IsDecDigit(ds[j]) THEN DecNumber(ds) ELSE -1

\* the value of the constant <name>_size of a header, -1 if there is none
SizeValue(text, name) ==
  LET L == SplitLines(text)
      pre == T_SizeT \o name \o T_SizeEq
      hits == {j \in 1..Len(L) : StartsWith(L[j], pre) /\ EndsWith(L[j], Enc(<<";">>))}
      j == CHOOSE x \in hits : \A y \in hits : x <= y
  IN  IF hits = {} THEN -1 ELSE ParseDecimal(SubSeq(L[j], Len(pre) + 1, Len(L[j]) - 1))

\* an invocation that has ended with exit status 0
Succeeded(p) == pc[p] = "exited" /\ exitcode[p] = 0

\* the bytes of the input of p before it started
InputBytes(p) == fs0[SpvFile(p)]

\* the header p has left at its destination
Header(p) == fs[HeaderFile(p)]

\* ------------------------------------------------------------------------
\* The claims
\* ------------------------------------------------------------------------

\* C1: after a successful invocation, the hex literals of the array of the
\* header, read row by row and left to right, are the bytes of the input:
\* the same length, the same values, the same order.
C1_RoundTrip ==
  \A p \in Procs :
    Succeeded(p) => Decode(Header(p), VarName(p)) = InputBytes(p)

\* a successful invocation on an input of two full rows and a part of a third
C1_Witness ==
  \E p \in Procs :
    /\ Succeeded(p)
    /\ Len(InputBytes(p)) > 2 * RowWidth
    /\ Len(InputBytes(p)) % RowWidth # 0
    /\ \E j \in 1..Len(InputBytes(p)) : InputBytes(p)[j] > 240

\* C2: whatever the invocation has done so far, and also after it was
\* killed or failed, the destination holds its previous content (or is
\* absent as before) or the complete new header.
C2_AtomicWrite ==
  \A p \in Procs :
    Len(argv[p]) = 4 =>
      \/ Header(p) = fs0[HeaderFile(p)]
      \/ Header(p) = Render(SpvFile(p), VarName(p), InputBytes(p))

\* C3: with three arguments and no file at the input path, the destination
\* is never touched, and the invocation exits with status 1.
C3_MissingInput ==
  \A p \in Procs :
    (Len(argv[p]) = 4 /\ InputBytes(p) = NoFile) =>
      /\ Header(p) = fs0[HeaderFile(p)]
      /\ pc[p] = "exited" => exitcode[p] = 1

\* an invocation that has exited on a missing input, the destination being
\* a file that existed before
C3_Witness ==
  \E p \in Procs :
    /\ pc[p] = "exited"
    /\ Len(argv[p]) = 4
    /\ InputBytes(p) = NoFile
    /\ fs0[HeaderFile(p)] = OldText

\* the number of hex literals a row of the array must hold
ExpectedLiterals(r, rows, n) ==
  IF r < rows THEN 12 ELSE IF n % 12 = 0 THEN 12 ELSE n % 12

\* C4: after a successful invocation on n > 0 bytes the array has
\* ceil(n/12) rows, each but the last of 12 literals, the last of n mod 12
\* (12 when that is 0), and a comma follows every literal.
C4_RowWidth ==
  \A p \in Procs :
    (Succeeded(p) /\ Len(InputBytes(p)) > 0) =>
      LET rows == ArrayBody(Header(p), VarName(p))
          n == Len(InputBytes(p))
      IN  /\ Len(rows) = (n + 11) \div 12
          /\ \A r \in 1..Len(rows) :
               /\ Cardinality(LitStarts(rows[r])) = ExpectedLiterals(r, Len(rows), n)
               /\ \A j \in LitStarts(rows[r]) :
                    LET e == LitEnd(rows[r], j + 1)
                    IN  e + 1 <= Len(rows[r]) /\ rows[r][e + 1] = COMMA

\* a successful invocation whose array has a full row and a shorter last one
C4_Witness ==
  \E p \in Procs :
    /\ Succeeded(p)
    /\ Len(ArrayBody(Header(p), VarName(p))) = 3
    /\ Cardinality(LitStarts(ArrayBody(Header(p), VarName(p))[3])) = 1

\* the number of hex literals in the rows
RECURSIVE CountLiterals(_)
CountLiterals(rows) ==
  IF rows = <<>> THEN 0
  ELSE Cardinality(LitStarts(Head(rows))) + CountLiterals(Tail(rows))

\* C5: after a successful invocation the decimal value of the size
\* constant is the number of input bytes, and so is the number of hex
\* literals of the array; also for the empty input.
C5_Size ==
  \A p \in Procs :
    Succeeded(p) =>
      /\ SizeValue(Header(p), VarName(p)) = Len(InputBytes(p))
      /\ CountLiterals(ArrayBody(Header(p), VarName(p))) = Len(InputBytes(p))

\* a successful invocation on an input of more than nine bytes
C5_Witness ==
  \E p \in Procs :
    /\ Succeeded(p)
    /\ SizeValue(Header(p), VarName(p)) > 9

\* the guard a name asks for
ExpectedGuard(name) == T_Shader \o Upper(name) \o T_H

HasLowerCase(s) == \E j \in 1..Len(s) : s[j] >= Ord("a") /\ s[j] <= Ord("z")

\* C6: after a successful invocation the #ifndef, #define and #endif lines
\* carry one token, SHADER_ + the name in upper case + _H, whatever the
\* casing of the name, and the size and data symbols carry the name as given.
C6_Guard ==
  \A p \in Procs :
    Succeeded(p) =>
      LET L == SplitLines(Header(p))
          g == ExpectedGuard(VarName(p))
      IN  /\ ~HasLowerCase(g)
          /\ L[4] = T_Ifndef \o g
          /\ L[5] = T_Define \o g
          /\ L[Len(L) - 1] = T_Endif \o g
          /\ StartsWith(L[12], T_SizeT \o VarName(p) \o T_SizeEq)
          /\ L[14] = T_Uint8 \o VarName(p) \o ArrayOpen(<<>>)

\* a successful invocation with a name of mixed case
C6_Witness ==
  \E p \in Procs :
    /\ Succeeded(p)
    /\ HasLowerCase(VarName(p))
    /\ Upper(VarName(p)) # VarName(p)
    /\ VarName(p) # Name_ab

\* both invocations have succeeded on the same bytes with the same name
SameRender(p, q) ==
  /\ Succeeded(p) /\ Succeeded(q)
  /\ spv_data[p] = spv_data[q]
  /\ VarName(p) = VarName(q)

C8_BadArgCount ==
  \A p \in Procs :
    (pc[p] # "off" /\ Len(argv[p]) # 4) =>
      /\ iolog[p] = <<>>
      /\ ~fin[p] /\ ~fout[p].open
      /\ fs = fs0
      /\ pc[p] = "exited" => exitcode[p] = 1

\* an invocation with four arguments that has exited
C8_Witness ==
  \E p \in Procs : pc[p] = "exited" /\ Len(argv[p]) > 4

\* the entry point has refused the invocation
Refused(p) ==
  /\ pc[p] = "exited"
  /\ Len(argv[p]) # 4 \/ InputBytes(p) = NoFile

\* C9: standard output carries only the confirmation of a success; when
\* the entry point refuses the invocation, the message is on standard error.
C9_Diagnostics ==
  \A p \in Procs :
    /\ \A j \in 1..Len(stdout[p]) : stdout[p][j].kind = "Generated"
    /\ Refused(p) => stderr[p] # <<>>

\* a write to the destination has failed after it was opened
WriteFailed(p) ==
  /\ pc[p] = "exited"
  /\ \E j \in 1..Len(iolog[p]) : iolog[p][j].op = "open_w"
  /\ \E j \in 1..Len(stderr[p]) : stderr[p][j].kind = "OSError"

\* C10: when a write to the destination fails after output has begun, the
\* exit status is not 0 and the destination holds what it held before.
C10_NoPartialOutput ==
  \A p \in Procs :
    WriteFailed(p) =>
      /\ exitcode[p] # 0
      /\ Header(p) = fs0[HeaderFile(p)]

\* the invocation has opened its destination
OpenedOutput(p) == \E j \in 1..Len(iolog[p]) : iolog[p][j].op = "open_w"

\* the input of p existed before p started and cannot be read now: it is a
\* directory, may not be read, or was removed after the existence check
CannotRead(p) ==
  /\ Len(argv[p]) = 4
  /\ InputBytes(p) # NoFile
  /\ OpenError(SpvFile(p)) # ""

\* C11: when the input passes the existence check and cannot be read, the
\* invocation renders no bytes and never opens the destination, which
\* stays as it was, and when it exits its status is not 0.
C11_UnreadableInput ==
  \A p \in Procs :
    CannotRead(p) =>
      /\ spv_data[p] = <<>>
      /\ ~OpenedOutput(p) /\ ~fout[p].open
      /\ HeaderFile(p) # SpvFile(p) => Header(p) = fs0[HeaderFile(p)]
      /\ pc[p] \notin Lines \ {"L47", "L55", "L14"}
      /\ pc[p] = "exited" => exitcode[p] # 0

\* an invocation that has exited because its input was removed after the
\* existence check, the destination being a file that existed before
C11_Witness ==
  \E p \in Procs :
    /\ pc[p] = "exited"
    /\ CannotRead(p)
    /\ fs[SpvFile(p)] = NoFile
    /\ \E j \in 1..Len(stderr[p]) : stderr[p][j].kind = "FileNotFoundError"
    /\ fs0[HeaderFile(p)] = OldText

\* a previous header longer than any new one, and one exactly as long as
\* the new header of an input of n bytes, a one-letter base name and a
\* two-letter name
OldLong == Render(P_ds, Name_x9, Bin(MaxLen + RowWidth, 7, 3))
OldSameLength(n) == Render(P_t, Name_Ab, Bin(n, 3, 5))

\* one invocation whose destination holds a shorter text, a longer header
\* or a header of the length of the new one
InitReplace ==
  \E n \in 0..MaxLen :
    \E old \in {OldText, OldLong, OldSameLength(n)},
       a \in FullArgs({P_ds}, {P_h}, {Name_ab}) :
      InitState(Files(Bin(n, 250, 17), old), [p \in Procs |-> IF p = 1 THEN a ELSE <<>>])

SpecReplace == InitReplace /\ [][Next]_vars

\* C12: after a successful invocation the destination holds exactly the
\* header of the input, and no byte of what it held before, whether that
\* was shorter, as long or longer.
C12_FullReplacement ==
  \A p \in Procs :
    Succeeded(p) => Header(p) = Render(SpvFile(p), VarName(p), InputBytes(p))

\* a successful invocation whose destination held a longer file before
C12_Witness ==
  \E p \in Procs :
    /\ Succeeded(p)
    /\ Len(fs0[HeaderFile(p)]) > Len(Header(p))

\* the first line of a text
FirstLine(t) == SplitLines(t)[1]

\* C13: after a successful invocation on an input of no bytes, the size
\* constant is 0 and the line that closes the array follows the line that
\* opens it, with no row between them; the comment, guard, include,
\* namespace and closing lines are all there.
C13_EmptyInput ==
  \A p \in Procs :
    (Succeeded(p) /\ InputBytes(p) = <<>>) =>
      LET L == SplitLines(Header(p))
          g == ExpectedGuard(VarName(p))
      IN  /\ Len(L) = 20
          /\ SizeValue(Header(p), VarName(p)) = 0
          /\ ArrayBody(Header(p), VarName(p)) = <<>>
          /\ L[1] = T_Auto \o Basename(SpvFile(p))
          /\ L[2] = FirstLine(T_DoNotEdit)
          /\ L[4] = T_Ifndef \o g
          /\ L[5] = T_Define \o g
          /\ L[7] = FirstLine(T_Cstdint)
          /\ L[8] = FirstLine(T_Cstddef)
          /\ L[10] = FirstLine(T_Namespace)
          /\ L[12] = T_SizeT \o VarName(p) \o T_SizeEq \o Enc(<<"0",";">>)
          /\ L[14] = T_Uint8 \o ArrayOpen(VarName(p))
          /\ L[15] = ArrayClose
          /\ L[17] = FirstLine(T_NamespaceClose)
          /\ L[19] = T_Endif \o g
          /\ \A j \in {3, 6, 9, 11, 13, 16, 18, 20} : L[j] = <<>>

\* a successful invocation on an input of no bytes
C13_Witness ==
  \E p \in Procs :
    /\ Succeeded(p)
    /\ InputBytes(p) = <<>>
    /\ Header(p) # <<>>

\* what a whole invocation opens, reads and closes, in order
FullLog(p) ==
  <<[op |-> "open_r", path |-> SpvFile(p)], [op |-> "read", path |-> SpvFile(p)],
    [op |-> "close", path |-> SpvFile(p)], [op |-> "open_w", path |-> HeaderFile(p)],
    [op |-> "close", path |-> HeaderFile(p)]>>

IsPrefix(a, b) == Len(a) <= Len(b) /\ SubSeq(b, 1, Len(a)) = a

\* the confirmation of line 44 has been printed
Confirmed(p) == \E j \in 1..Len(stdout[p]) : stdout[p][j].kind = "Generated"

\* C14: an invocation opens, reads and closes its input before it opens
\* its destination, and touches the destination only after that; its two
\* handles are never open together; and it prints the confirmation only
\* when the output handle is closed and the whole header is written.
C14_Phases ==
  \A p \in Procs :
    Len(argv[p]) = 4 =>
      /\ IsPrefix(iolog[p], FullLog(p))
      /\ ~(fin[p] /\ fout[p].open)
      /\ fout[p].open => OpenedOutput(p)
      /\ OpenedOutput(p) => ~fin[p] /\ spv_data[p] = InputBytes(p)
      /\ ~OpenedOutput(p) => Header(p) = fs0[HeaderFile(p)]
      /\ Confirmed(p) =>
           /\ ~fout[p].open
           /\ iolog[p] = FullLog(p)
           /\ Header(p) = Render(SpvFile(p), VarName(p), InputBytes(p))

\* an invocation that has printed its confirmation
C14_Witness ==
  \E p \in Procs :
    /\ Confirmed(p)
    /\ Len(iolog[p]) = 5
    /\ Len(spv_data[p]) > RowWidth

\* the destination an invocation was given, and the header it leaves
\* there when it runs alone
Dest(p) == argv[p][3]
Alone(p) == Render(argv[p][2], argv[p][4], InputBytes(p))

\* C15: of two invocations with different destinations, whatever the
\* interleaving of their steps, each destination holds what it held before
\* or a part of the header its own invocation writes alone, and that whole
\* header once the invocation has succeeded.
C15_Independent ==
  \A p \in Procs :
    LET header == Alone(p) IN
      /\ fs[Dest(p)] = fs0[Dest(p)] \/ IsPrefix(fs[Dest(p)], header)
      /\ Succeeded(p) => fs[Dest(p)] = header

\* both invocations have succeeded, having read the same input file
C15_Witness ==
  /\ \A p \in Procs : Succeeded(p)
  /\ argv[1][2] = argv[2][2]
  /\ Dest(1) # Dest(2)
  /\ fs[Dest(1)] # fs[Dest(2)]

\* one invocation whose input path and destination path are the same path:
\* a binary file named as both, or a text file named as both
InitAlias ==
  \E bin \in InputBins(MaxLen), x \in {P_ds, P_t, P_h}, name \in Names :
    InitState(Files(bin, OldText), [p \in Procs |-> IF p = 1 THEN <<Script, x, x, name>> ELSE <<>>])

SpecAlias == InitAlias /\ [][Next]_vars

\* the input path and the destination path of p are the same path
Aliased(p) == Len(argv[p]) = 4 /\ argv[p][2] = argv[p][3]

\* C16: when the input path and the destination path are the same, the
\* data held when the file is truncated are all the bytes the file had
\* before the invocation, and after a successful invocation the file holds
\* the header of those bytes (their number as the size constant, the bytes
\* themselves as the array) and no longer the bytes.
C16_Aliased ==
  \A p \in Procs :
    Aliased(p) =>
      /\ OpenedOutput(p) => spv_data[p] = fs0[argv[p][2]]
      /\ Succeeded(p) =>
           /\ fs[argv[p][2]] = Render(argv[p][2], argv[p][4], fs0[argv[p][2]])
           /\ SizeValue(fs[argv[p][2]], argv[p][4]) = Len(fs0[argv[p][2]])
           /\ Decode(fs[argv[p][2]], argv[p][4]) = fs0[argv[p][2]]
           /\ fs[argv[p][2]] # fs0[argv[p][2]]

\* a successful invocation on a binary file of more than a row, named as
\* input and as destination
C16_Witness ==
  \E p \in Procs :
    /\ Aliased(p)
    /\ Succeeded(p)
    /\ argv[p][2] \in InputPaths
    /\ Len(fs0[argv[p][2]]) > RowWidth
    /\ Decode(fs[argv[p][3]], argv[p][4]) = fs0[argv[p][2]]
    /\ iolog[p] = FullLog(p)

====
